---------------------------- MODULE Spec2Model ----------------------------
(***************************************************************************)
(* Process supervision in the Real-Time vs Batch analytics pipeline:       *)
(*   run_demo.py  the demo sequencer (precheck, producer, streaming,       *)
(*                batch, comparison, report)                               *)
(*   main.py      the CLI dispatcher (start, producer, streaming, batch,   *)
(*                scheduler, compare)                                      *)
(* A child process is an OS process with its own behaviour: it may exit by *)
(* itself at any moment, honour SIGTERM or ignore it.  SIGKILL cannot be   *)
(* ignored: a child that was sent SIGKILL is "killing" until the kernel    *)
(* has torn it down, and is then "exited" with code -9.                    *)
(* A KeyboardInterrupt may be delivered at every control position of the   *)
(* demo and of start-all, and while a single-service command waits for its *)
(* child.  Time is not measured: a sleep ends, and a wait(timeout=5) on a  *)
(* running child times out, whenever the model chooses.                    *)
(***************************************************************************)
EXTENDS Integers, Sequences, FiniteSets, TLC

\* ------------------------------------------------------------------ bounds
\* children exit by themselves with a code in 0..MaxExitCode
MaxExitCode == 1
\* number of interrupt signals delivered to one run
MaxInterrupts == 2
\* number of files in the output directory, and their modification times
MaxFiles == 2
MaxMtime == 2
\* the summary's percentages lie within Spread of the target
Spread == 2

\* ------------------------------------------------------- program constants
DATA_GENERATION_TIME == 180
PROCESSING_WAIT_TIME == 60
PRODUCER_DELAY == 5
STREAMING_DELAY == 10
\* returncode of a child ended by SIGTERM / SIGKILL (subprocess: -signum)
RC_SIGTERM == -15
RC_SIGKILL == -9
\* exit status of the interpreter on an uncaught KeyboardInterrupt
EXIT_SIGINT == 130
\* display_results: the share of windows (in percent) a target asks for
TARGET_PCT == 95

Procs == {"Producer", "Streaming", "Batch", "Scheduler", "Comparison"}

\* run_demo's steps in program order, with the duration passed to run_process
\* (0 stands for None: both are falsy in `if duration:`)
DemoSteps == <<"Producer", "Streaming", "Batch", "Comparison">>
DemoDuration == <<DATA_GENERATION_TIME, PROCESSING_WAIT_TIME, 0, 0>>
\* mutant: a failed streaming step aborts the demo too
FatalSteps_WithStreaming == {"Streaming", "Batch", "Comparison"}

\* the steps whose failure makes run_demo return False
FatalSteps == {"Batch", "Comparison"}

\* start_all_services' services in program order (dict insertion order)
Services == <<"Producer", "Streaming", "Scheduler">>
\* the sleep that follows each service's start (0: none, the idle loop follows)
StartDelay == <<PRODUCER_DELAY, STREAMING_DELAY, 0>>

\* the script each single-service command starts
CommandProc ==
  [producer |-> "Producer", streaming |-> "Streaming", scheduler |-> "Scheduler",
   batch |-> "Batch", compare |-> "Comparison"]
WaitingCommands == {"producer", "streaming", "scheduler"}
Modes == {"demo", "start", "producer", "streaming", "scheduler", "batch", "compare", "none"}

ExitCodes == 0..MaxExitCode

\* The listing of comparison/output at reporting time: whether the directory
\* exists, and the set of its files.  A file name is a sequence of name
\* parts; a pattern is found in it when one part is the pattern.
FileNames ==
  { <<"summary_", "a">>, <<"summary_", "b">>, <<"latency_dist_", "a">>, <<"notes">> }
Files == [name : FileNames, mtime : 1..MaxMtime]
FileSets == { d \in SUBSET Files :
                /\ Cardinality(d) <= MaxFiles
                /\ \A f, g \in d : f.name = g.name => f = g }
AbsentDir == [exists |-> FALSE, files |-> {}]
Listings == {AbsentDir} \cup { [exists |-> TRUE, files |-> d] : d \in FileSets }

\* the patterns display_results looks for
Patterns == {"summary_", "percent_diff_dist_", "top_hashtags_comparison_", "latency_dist_"}
\* the percentages a summary file may hold
Percentages == (TARGET_PCT - Spread)..(TARGET_PCT + Spread)

VARIABLES
  mode,         \* the entry point and sub-command of this run
  pc,           \* control position of the supervisor
  step,         \* index of the current demo step / service / stop-loop entry
  os,           \* per child: "none", "nolaunch", "running", "killing", "exited"
  code,         \* per child: {} while alive, {c} once the OS process has ended
  rc,           \* per child: Popen.returncode, {} for None
  sigterm,      \* children that were actually sent SIGTERM
  termCalls,    \* per child: number of process.terminate() calls
  killCalls,    \* per child: number of process.kill() calls
  graceExpired, \* children whose wait(timeout=5) raised TimeoutExpired
  processes,    \* start_all_services' dict: the names it tracks
  success,      \* run_demo's *_success locals: "unset", "true", "false"
  result,       \* run_demo: "unset", "true", "false", "raised", "interrupted"
  reported,     \* display_results: "unset", "true", "false", "raised"
  outdir,       \* the listing display_results saw (AbsentDir before it ran)
  exitStatus,   \* {} while the program runs, {n} once it has exited
  stopCalls,    \* number of stop_processes calls begun
  interrupts,   \* number of KeyboardInterrupts delivered
  docker,       \* check_docker_running: "unset", or how the compose commands went
  clock,        \* start_all_services: seconds slept in the start delays so far
  startedAt,    \* per service: {} or {the clock at its start attempt}
  found,        \* one call of find_latest_file: its arguments and its outcome
  verdict       \* one summary record and the two verdicts display_results logs

vars == <<mode, pc, step, os, code, rc, sigterm, termCalls, killCalls, graceExpired,
          processes, success, result, reported, outdir, exitStatus, stopCalls,
          interrupts, docker, clock, startedAt, found, verdict>>

childVars == <<os, code, rc, sigterm, termCalls, killCalls, graceExpired>>
demoVars == <<success, result, reported, outdir>>
reportVars == <<found, verdict>>
timeVars == <<clock, startedAt>>

\* --------------------------------------------------------------- helpers
Alive(p) == os[p] \in {"running", "killing"}
Launched(p) == os[p] \in {"running", "killing", "exited"}
\* exited, or force-killed
Terminated(p) == os[p] = "exited" \/ killCalls[p] > 0

\* no call of find_latest_file yet / no summary assessed yet
NoFind == [state |-> "none", dir |-> AbsentDir, pattern |-> "summary_", ret |-> {}]
NoVerdict ==
  [state |-> "none", windows_within_threshold |-> TARGET_PCT,
   latency_within_target |-> TARGET_PCT, accuracy_passed |-> FALSE,
   latency_passed |-> FALSE]

InitCommon ==
  /\ step = 1
  /\ os = [p \in Procs |-> "none"]
  /\ code = [p \in Procs |-> {}]
  /\ rc = [p \in Procs |-> {}]
  /\ sigterm = {}
  /\ termCalls = [p \in Procs |-> 0]
  /\ killCalls = [p \in Procs |-> 0]
  /\ graceExpired = {}
  /\ processes = {}
  /\ success = [p \in Procs |-> "unset"]
  /\ result = "unset"
  /\ reported = "unset"
  /\ outdir = AbsentDir
  /\ exitStatus = {}
  /\ stopCalls = 0
  /\ interrupts = 0
  /\ found = NoFind
  /\ verdict = NoVerdict
  /\ docker = "unset"
  /\ clock = 0
  /\ startedAt = [p \in Procs |-> {}]

EntryPc(m) ==
  CASE m = "demo" -> "precheck"
    [] m = "start" -> "s_launch"
    [] m = "none" -> "c_error"
    [] OTHER -> "c_launch"

Init ==
  /\ mode \in Modes
  /\ pc = EntryPc(mode)
  /\ InitCommon

\* sys.exit(n) / falling off the end of the script
Exit(n) == pc' = "exited" /\ exitStatus' = {n}

\* --------------------------------------------------- the child processes
\* A running child ends by itself, or in answer to SIGTERM once it was sent.
ChildExit(p) ==
  /\ os[p] = "running"
  /\ \E c \in ExitCodes \cup (IF p \in sigterm THEN {RC_SIGTERM} ELSE {}) :
       /\ os' = [os EXCEPT ![p] = "exited"]
       /\ code' = [code EXCEPT ![p] = {c}]
  /\ UNCHANGED <<mode, reportVars, docker, timeVars, pc, step, rc, sigterm, termCalls,
                 killCalls, graceExpired,
                 processes, demoVars, exitStatus, stopCalls, interrupts>>

\* The kernel ends a child that was sent SIGKILL.
ChildDies(p) ==
  /\ os[p] = "killing"
  /\ os' = [os EXCEPT ![p] = "exited"]
  /\ code' = [code EXCEPT ![p] = {RC_SIGKILL}]
  /\ UNCHANGED <<mode, reportVars, docker, timeVars, pc, step, rc, sigterm, termCalls,
                 killCalls, graceExpired,
                 processes, demoVars, exitStatus, stopCalls, interrupts>>

\* ----------------------------------------------- subprocess.Popen methods
\* Popen.poll(): reaps an ended child into returncode
Polled(p) == IF os[p] = "exited" THEN code[p] ELSE rc[p]

\* process.terminate(): polls first, sends SIGTERM only to a child not ended
Terminate(p) ==
  /\ termCalls' = [termCalls EXCEPT ![p] = @ + 1]
  /\ rc' = [rc EXCEPT ![p] = Polled(p)]
  /\ sigterm' = IF Polled(p) = {} THEN sigterm \cup {p} ELSE sigterm

\* process.kill(): polls first, sends SIGKILL only to a child not ended;
\* returncode stays None, kill() does not wait
Kill(p) ==
  /\ killCalls' = [killCalls EXCEPT ![p] = @ + 1]
  /\ rc' = [rc EXCEPT ![p] = Polled(p)]
  /\ os' = [os EXCEPT ![p] = IF os[p] = "running" THEN "killing" ELSE @]

\* ---------------------------------------------------------- run_demo.py
DemoProc == DemoSteps[step]

\* mutant: the streaming step is started without its duration
Bounded_ProducerOnly(i) == i = 1

\* `if duration:` in run_process
Bounded(i) == DemoDuration[i] # 0

\* mutant: a failed batch or comparison step only logs, like the first two
DemoAdvance_NoAbort(ok) ==
  /\ success' = [success EXCEPT ![DemoProc] = IF ok THEN "true" ELSE "false"]
  /\ UNCHANGED <<result, exitStatus>>
  /\ IF step < Len(DemoSteps)
       THEN pc' = "launch" /\ step' = step + 1
       ELSE pc' = "report" /\ UNCHANGED step

\* run_demo after run_process(step) returned ok: the fatal steps abort with
\* False (the script then exits 1), the others go on to the next step
DemoAdvance(ok) ==
  /\ success' = [success EXCEPT ![DemoProc] = IF ok THEN "true" ELSE "false"]
  /\ IF ~ok /\ DemoProc \in FatalSteps
       THEN /\ result' = "false"
            /\ Exit(1)
            /\ UNCHANGED step
       ELSE /\ UNCHANGED <<result, exitStatus>>
            /\ IF step < Len(DemoSteps)
                 THEN pc' = "launch" /\ step' = step + 1
                 ELSE pc' = "report" /\ UNCHANGED step

\* check_docker_running(): the compose query fails, or finds every service
\* running, or finds some missing and `docker-compose up -d` fails or
\* succeeds; False on either failure
DockerOutcomes == {"query_failed", "running", "up_failed", "started"}
DockerOk(o) == o \in {"running", "started"}

\* mutant: the result of check_docker_running is not tested
DemoCheckDocker_Ignored ==
  /\ mode = "demo" /\ pc = "precheck"
  /\ \E o \in DockerOutcomes : docker' = o
  /\ pc' = "launch"
  /\ UNCHANGED <<mode, reportVars, timeVars, step, childVars, processes, success,
                 result, reported, outdir, exitStatus, stopCalls, interrupts>>

\* run_demo step 1: `if not check_docker_running(): ... return False`
DemoCheckDocker ==
  /\ mode = "demo" /\ pc = "precheck"
  /\ \E o \in DockerOutcomes :
       /\ docker' = o
       /\ IF DockerOk(o) THEN /\ pc' = "launch"
                              /\ UNCHANGED <<result, exitStatus>>
                         ELSE /\ result' = "false"
                              /\ Exit(1)
  /\ UNCHANGED <<mode, reportVars, timeVars, step, childVars, processes, success,
                 reported, outdir, stopCalls, interrupts>>

\* run_process: subprocess.Popen(...) succeeds, or raises and False is returned
DemoLaunch ==
  /\ mode = "demo" /\ pc = "launch"
  /\ \E ok \in BOOLEAN :
       IF ok THEN /\ os' = [os EXCEPT ![DemoProc] = "running"]
                  /\ pc' = IF Bounded(step) THEN "sleep" ELSE "comm"
                  /\ UNCHANGED <<step, success, result, exitStatus>>
             ELSE /\ os' = [os EXCEPT ![DemoProc] = "nolaunch"]
                  /\ DemoAdvance(FALSE)
  /\ UNCHANGED <<mode, reportVars, docker, timeVars, code, rc, sigterm, termCalls,
                 killCalls, graceExpired,
                 processes, reported, outdir, stopCalls, interrupts>>

\* time.sleep(duration) returns; process.terminate()
DemoSleepDone ==
  /\ mode = "demo" /\ pc = "sleep"
  /\ Terminate(DemoProc)
  /\ pc' = "grace"
  /\ UNCHANGED <<mode, reportVars, docker, timeVars, step, os, code, killCalls,
                 graceExpired, processes, demoVars,
                 exitStatus, stopCalls, interrupts>>

\* mutant: the forced kill stands in a finally clause, so it also follows a
\* wait that returned within the grace period
DemoWaitReturn_AlwaysKill ==
  /\ mode = "demo" /\ pc = "grace"
  /\ os[DemoProc] = "exited"
  /\ rc' = [rc EXCEPT ![DemoProc] = code[DemoProc]]
  /\ killCalls' = [killCalls EXCEPT ![DemoProc] = @ + 1]
  /\ DemoAdvance(code[DemoProc] = {0})
  /\ UNCHANGED <<mode, reportVars, docker, timeVars, os, code, sigterm, termCalls,
                 graceExpired,
                 processes, reported, outdir, stopCalls, interrupts>>

\* process.wait(timeout=5) returns: the child has ended; return returncode == 0
DemoWaitReturn ==
  /\ mode = "demo" /\ pc = "grace"
  /\ os[DemoProc] = "exited"
  /\ rc' = [rc EXCEPT ![DemoProc] = code[DemoProc]]
  /\ DemoAdvance(code[DemoProc] = {0})
  /\ UNCHANGED <<mode, reportVars, docker, timeVars, os, code, sigterm, termCalls,
                 killCalls, graceExpired,
                 processes, reported, outdir, stopCalls, interrupts>>

\* mutant: the timeout is only logged, the child is left alone
DemoGraceTimeout_NoKill ==
  /\ mode = "demo" /\ pc = "grace"
  /\ os[DemoProc] = "running"
  /\ graceExpired' = graceExpired \cup {DemoProc}
  /\ DemoAdvance(rc[DemoProc] = {0})
  /\ UNCHANGED <<mode, reportVars, docker, timeVars, os, code, rc, sigterm, termCalls,
                 killCalls, processes, reported, outdir, stopCalls, interrupts>>

\* process.wait(timeout=5) raises TimeoutExpired: process.kill(); the
\* returncode is still None, so False is returned
DemoGraceTimeout ==
  /\ mode = "demo" /\ pc = "grace"
  /\ os[DemoProc] = "running"
  /\ graceExpired' = graceExpired \cup {DemoProc}
  /\ Kill(DemoProc)
  /\ DemoAdvance(rc'[DemoProc] = {0})
  /\ UNCHANGED <<mode, reportVars, docker, timeVars, code, sigterm, termCalls,
                 processes, reported, outdir,
                 stopCalls, interrupts>>

\* process.communicate() returns once the child has ended
DemoCommunicate ==
  /\ mode = "demo" /\ pc = "comm"
  /\ os[DemoProc] = "exited"
  /\ rc' = [rc EXCEPT ![DemoProc] = code[DemoProc]]
  /\ DemoAdvance(code[DemoProc] = {0})
  /\ UNCHANGED <<mode, reportVars, docker, timeVars, os, code, sigterm, termCalls,
                 killCalls, graceExpired,
                 processes, reported, outdir, stopCalls, interrupts>>

\* "pattern in f" for the file names of a listing
NameContains(name, pattern) == \E i \in 1..Len(name) : name[i] = pattern

\* find_latest_file(directory, pattern): the newest matching file, None ({})
\* when none matches; os.listdir raises when the directory does not exist
\* mutant: min(files, key=os.path.getmtime)
LatestFiles_Oldest(dir, pattern) ==
  { f \in { h \in dir : NameContains(h.name, pattern) } :
      \A g \in { h \in dir : NameContains(h.name, pattern) } : f.mtime <= g.mtime }

Matching(dir, pattern) == { f \in dir : NameContains(f.name, pattern) }
LatestFiles(dir, pattern) ==
  { f \in Matching(dir, pattern) : \A g \in Matching(dir, pattern) : g.mtime <= f.mtime }

\* One call find_latest_file(directory, pattern).  max() returns the first
\* of the newest files in listing order, which os.listdir leaves arbitrary:
\* any of them may be returned.
FindLatestFile ==
  /\ mode = "report" /\ found.state = "none"
  /\ IF ~found.dir.exists
       THEN found' = [found EXCEPT !.state = "raised"]
       ELSE \E r \in IF LatestFiles(found.dir.files, found.pattern) = {}
                       THEN {{}}
                       ELSE {{f} : f \in LatestFiles(found.dir.files, found.pattern)} :
              found' = [found EXCEPT !.state = "returned", !.ret = r]
  /\ UNCHANGED <<mode, pc, step, childVars, processes, demoVars, exitStatus,
                 stopCalls, interrupts, docker, timeVars, verdict>>

\* mutant: the boundary value does not count as met
TargetMet_Strict(pct) == pct > TARGET_PCT

\* `summary[...] >= 95`
TargetMet(pct) == pct >= TARGET_PCT

\* display_results, "PERFORMANCE ASSESSMENT": the two verdicts of a summary
AssessTargets ==
  /\ mode = "report" /\ verdict.state = "none"
  /\ verdict' = [verdict EXCEPT
                   !.state = "done",
                   !.accuracy_passed = TargetMet(verdict.windows_within_threshold),
                   !.latency_passed = TargetMet(verdict.latency_within_target)]
  /\ UNCHANGED <<mode, pc, step, childVars, processes, demoVars, exitStatus,
                 stopCalls, interrupts, docker, timeVars, found>>

\* display_results(): the listing calls stand before the try block
DisplayOutcomes(dir) ==
  IF ~dir.exists THEN {"raised"}
  ELSE IF LatestFiles(dir.files, "summary_") = {} THEN {"false"}
  ELSE {"true", "false"}

\* run_demo step 6 and its return; an exception of display_results leaves
\* run_demo and is caught by the script's `except Exception`: exit 1
DemoDisplayResults ==
  /\ mode = "demo" /\ pc = "report"
  /\ \E dir \in Listings : \E r \in DisplayOutcomes(dir) :
       /\ outdir' = dir
       /\ reported' = r
       /\ IF r = "raised" THEN result' = "raised" /\ Exit(1)
                          ELSE result' = "true" /\ Exit(0)
  /\ UNCHANGED <<mode, reportVars, docker, timeVars, step, childVars, processes,
                 success, stopCalls, interrupts>>

\* KeyboardInterrupt in run_demo: no handler below the script's own, which
\* logs "Demo stopped by user." and lets the script end with status 0
DemoInterrupt ==
  /\ mode = "demo" /\ pc # "exited"
  /\ interrupts < MaxInterrupts
  /\ interrupts' = interrupts + 1
  /\ result' = "interrupted"
  /\ Exit(0)
  /\ UNCHANGED <<mode, reportVars, docker, timeVars, step, childVars, processes,
                 success, reported, outdir, stopCalls>>

\* -------------------------------------------------- main.py, stop_processes
\* the first entry of the dict at or after position i (Len(Services)+1: none)
RECURSIVE NextTracked(_)
NextTracked(i) ==
  IF i > Len(Services) \/ Services[i] \in processes THEN i ELSE NextTracked(i + 1)

StopProc == Services[step]

\* stop_processes(processes) is entered
BeginStop ==
  /\ pc' = "stop_poll"
  /\ step' = NextTracked(1)
  /\ stopCalls' = stopCalls + 1

\* mutant: the guard reads the cached returncode instead of polling, so a
\* child that ended unobserved is taken for alive
StopPoll_NoPoll ==
  /\ pc = "stop_poll" /\ step <= Len(Services)
  /\ IF rc[StopProc] # {}
       THEN /\ step' = NextTracked(step + 1)
            /\ UNCHANGED <<pc, rc, sigterm, termCalls>>
       ELSE /\ Terminate(StopProc)
            /\ pc' = "stop_wait"
            /\ UNCHANGED step
  /\ UNCHANGED <<mode, reportVars, docker, timeVars, os, code, killCalls,
                 graceExpired, processes, demoVars,
                 exitStatus, stopCalls, interrupts>>

\* `if process and process.poll() is None`: an ended child is skipped, any
\* other is sent process.terminate() and waited for
StopPoll ==
  /\ pc = "stop_poll" /\ step <= Len(Services)
  /\ IF Polled(StopProc) # {}
       THEN /\ rc' = [rc EXCEPT ![StopProc] = Polled(StopProc)]
            /\ step' = NextTracked(step + 1)
            /\ UNCHANGED <<pc, sigterm, termCalls>>
       ELSE /\ Terminate(StopProc)
            /\ pc' = "stop_wait"
            /\ UNCHANGED step
  /\ UNCHANGED <<mode, reportVars, docker, timeVars, os, code, killCalls,
                 graceExpired, processes, demoVars,
                 exitStatus, stopCalls, interrupts>>

\* process.wait(timeout=5) returns: the child has ended
StopWaitReturn ==
  /\ pc = "stop_wait"
  /\ os[StopProc] = "exited"
  /\ rc' = [rc EXCEPT ![StopProc] = code[StopProc]]
  /\ pc' = "stop_poll"
  /\ step' = NextTracked(step + 1)
  /\ UNCHANGED <<mode, reportVars, docker, timeVars, os, code, sigterm, termCalls,
                 killCalls, graceExpired,
                 processes, demoVars, exitStatus, stopCalls, interrupts>>

\* process.wait(timeout=5) raises TimeoutExpired: process.kill(), no wait
StopGraceTimeout ==
  /\ pc = "stop_wait"
  /\ os[StopProc] = "running"
  /\ graceExpired' = graceExpired \cup {StopProc}
  /\ Kill(StopProc)
  /\ pc' = "stop_poll"
  /\ step' = NextTracked(step + 1)
  /\ UNCHANGED <<mode, reportVars, docker, timeVars, code, sigterm, termCalls,
                 processes, demoVars, exitStatus,
                 stopCalls, interrupts>>

\* the loop of stop_processes is through.  In start_all_services the
\* function returns to the finally clause, "All services stopped" is logged
\* and main() ends; called twice in a row, the second call begins.
StopReturn ==
  /\ pc = "stop_poll" /\ step > Len(Services)
  /\ IF mode = "stop_twice" /\ stopCalls < 2
       THEN BeginStop /\ UNCHANGED exitStatus
       ELSE Exit(0) /\ UNCHANGED <<step, stopCalls>>
  /\ UNCHANGED <<mode, reportVars, docker, timeVars, childVars, processes, demoVars,
                 interrupts>>

\* --------------------------------------------- main.py, start_all_services
\* start_producer() / start_streaming_job() / start_batch_scheduler():
\* run_process returns the handle, or None when Popen raised
AfterStart == IF StartDelay[step] # 0 THEN "s_sleep" ELSE "idle"

\* mutant: the handle is assigned without the `if`, None included
StartLaunch_InsertNone ==
  /\ mode = "start" /\ pc = "s_launch"
  /\ \E ok \in BOOLEAN :
       os' = [os EXCEPT ![Services[step]] = IF ok THEN "running" ELSE "nolaunch"]
  /\ pc' = "s_insert"
  /\ startedAt' = [startedAt EXCEPT ![Services[step]] = {clock}]
  /\ UNCHANGED <<mode, reportVars, docker, clock, step, code, rc, sigterm, termCalls,
                 killCalls, graceExpired, processes, demoVars, exitStatus, stopCalls,
                 interrupts>>

StartLaunch ==
  /\ mode = "start" /\ pc = "s_launch"
  /\ \E ok \in BOOLEAN :
       IF ok THEN /\ os' = [os EXCEPT ![Services[step]] = "running"]
                  /\ pc' = "s_insert"
             ELSE /\ os' = [os EXCEPT ![Services[step]] = "nolaunch"]
                  /\ pc' = AfterStart
  /\ startedAt' = [startedAt EXCEPT ![Services[step]] = {clock}]
  /\ UNCHANGED <<mode, reportVars, docker, clock, step, code, rc, sigterm, termCalls,
                 killCalls, graceExpired,
                 processes, demoVars, exitStatus, stopCalls, interrupts>>

\* `if producer_process: processes["Producer"] = producer_process`
StartInsert ==
  /\ mode = "start" /\ pc = "s_insert"
  /\ processes' = processes \cup {Services[step]}
  /\ pc' = AfterStart
  /\ UNCHANGED <<mode, reportVars, docker, timeVars, step, childVars, demoVars,
                 exitStatus, stopCalls, interrupts>>

\* mutant: the delays are left out
StartSleepDone_NoDelay ==
  /\ mode = "start" /\ pc = "s_sleep"
  /\ step' = step + 1
  /\ pc' = "s_launch"
  /\ UNCHANGED <<mode, reportVars, docker, timeVars, childVars, processes, demoVars,
                 exitStatus, stopCalls, interrupts>>

\* time.sleep(5) / time.sleep(10) returns
StartSleepDone ==
  /\ mode = "start" /\ pc = "s_sleep"
  /\ clock' = clock + StartDelay[step]
  /\ step' = step + 1
  /\ pc' = "s_launch"
  /\ UNCHANGED <<mode, reportVars, docker, startedAt, childVars, processes, demoVars,
                 exitStatus, stopCalls,
                 interrupts>>

\* KeyboardInterrupt inside the try block (the idle loop `while True:
\* time.sleep(1)` ends no other way): except clause, then finally
StartInterrupt ==
  /\ mode = "start" /\ pc \in {"s_launch", "s_insert", "s_sleep", "idle"}
  /\ interrupts < MaxInterrupts
  /\ interrupts' = interrupts + 1
  /\ BeginStop
  /\ UNCHANGED <<mode, reportVars, docker, timeVars, childVars, processes, demoVars,
                 exitStatus>>

\* KeyboardInterrupt inside the finally clause: nothing catches it, the
\* rest of stop_processes is not run and the interpreter ends
StopInterrupt ==
  /\ mode = "start" /\ pc \in {"stop_poll", "stop_wait"}
  /\ interrupts < MaxInterrupts
  /\ interrupts' = interrupts + 1
  /\ Exit(EXIT_SIGINT)
  /\ UNCHANGED <<mode, reportVars, docker, timeVars, step, childVars, processes,
                 demoVars, stopCalls>>

\* ------------------------------------- main.py, the single-service commands
CliProc == CommandProc[mode]

\* run_process(script, name): Popen, the handle or None
CliLaunch ==
  /\ pc = "c_launch"
  /\ \E ok \in BOOLEAN :
       IF ok THEN /\ os' = [os EXCEPT ![CliProc] = "running"]
                  /\ IF mode \in WaitingCommands
                       THEN pc' = "c_wait" /\ UNCHANGED exitStatus
                       ELSE IF mode = "compare"
                         THEN pc' = "c_comm" /\ UNCHANGED exitStatus
                         ELSE Exit(0)
             ELSE /\ os' = [os EXCEPT ![CliProc] = "nolaunch"]
                  /\ Exit(0)
  /\ UNCHANGED <<mode, reportVars, docker, timeVars, step, code, rc, sigterm,
                 termCalls, killCalls, graceExpired,
                 processes, demoVars, stopCalls, interrupts>>

\* producer / streaming / scheduler: process.wait() returns
CliWaitReturn ==
  /\ pc = "c_wait"
  /\ os[CliProc] = "exited"
  /\ rc' = [rc EXCEPT ![CliProc] = code[CliProc]]
  /\ Exit(0)
  /\ UNCHANGED <<mode, reportVars, docker, timeVars, step, os, code, sigterm,
                 termCalls, killCalls, graceExpired,
                 processes, demoVars, stopCalls, interrupts>>

\* producer / streaming / scheduler: `except KeyboardInterrupt:
\* process.terminate()`, and main() ends
CliWaitInterrupt ==
  /\ pc = "c_wait"
  /\ interrupts < MaxInterrupts
  /\ interrupts' = interrupts + 1
  /\ Terminate(CliProc)
  /\ Exit(0)
  /\ UNCHANGED <<mode, reportVars, docker, timeVars, step, os, code, killCalls,
                 graceExpired, processes, demoVars,
                 stopCalls>>

\* run_comparison_analysis: process.communicate() returns; either branch
\* of the returncode test only logs
CliCompareReturn ==
  /\ pc = "c_comm"
  /\ os[CliProc] = "exited"
  /\ rc' = [rc EXCEPT ![CliProc] = code[CliProc]]
  /\ Exit(0)
  /\ UNCHANGED <<mode, reportVars, docker, timeVars, step, os, code, sigterm,
                 termCalls, killCalls, graceExpired,
                 processes, demoVars, stopCalls, interrupts>>

\* run_comparison_analysis: KeyboardInterrupt in communicate(), no handler
CliCompareInterrupt ==
  /\ pc = "c_comm"
  /\ interrupts < MaxInterrupts
  /\ interrupts' = interrupts + 1
  /\ Exit(EXIT_SIGINT)
  /\ UNCHANGED <<mode, reportVars, docker, timeVars, step, childVars, processes,
                 demoVars, stopCalls>>

\* no command: logger.error(...); sys.exit(1)
CliNoCommand ==
  /\ pc = "c_error"
  /\ Exit(1)
  /\ UNCHANGED <<mode, reportVars, docker, timeVars, step, childVars, processes,
                 demoVars, stopCalls, interrupts>>

\* ------------------------------------------------------- specifications
ChildStep == \E p \in Procs : ChildExit(p)
KernelStep == \E p \in Procs : ChildDies(p)

Next ==
  \/ ChildStep
  \/ KernelStep
  \/ DemoCheckDocker
  \/ DemoLaunch
  \/ DemoSleepDone
  \/ DemoWaitReturn
  \/ DemoGraceTimeout
  \/ DemoCommunicate
  \/ DemoDisplayResults
  \/ DemoInterrupt
  \/ StartLaunch
  \/ StartInsert
  \/ StartSleepDone
  \/ StartInterrupt
  \/ StopPoll
  \/ StopWaitReturn
  \/ StopGraceTimeout
  \/ StopReturn
  \/ StopInterrupt
  \/ CliLaunch
  \/ CliWaitReturn
  \/ CliWaitInterrupt
  \/ CliCompareReturn
  \/ CliCompareInterrupt
  \/ CliNoCommand

Spec == Init /\ [][Next]_vars

\* stop_processes called twice in a row on one process map: the map holds
\* any of the three services, each child running or already ended (and not
\* yet polled)
InitStopTwice ==
  /\ mode = "stop_twice"
  /\ pc = "stop_poll"
  /\ processes \in SUBSET {Services[i] : i \in 1..Len(Services)}
  /\ step = NextTracked(1)
  /\ os \in [Procs -> {"none", "running", "exited"}]
  /\ \A p \in Procs : os[p] # "none" <=> p \in processes
  /\ code \in [Procs -> {{}} \cup {{c} : c \in ExitCodes}]
  /\ \A p \in Procs : code[p] # {} <=> os[p] = "exited"
  /\ rc = [p \in Procs |-> {}]
  /\ sigterm = {}
  /\ termCalls = [p \in Procs |-> 0]
  /\ killCalls = [p \in Procs |-> 0]
  /\ graceExpired = {}
  /\ success = [p \in Procs |-> "unset"]
  /\ result = "unset"
  /\ reported = "unset"
  /\ outdir = AbsentDir
  /\ exitStatus = {}
  /\ stopCalls = 1
  /\ interrupts = 0
  /\ found = NoFind
  /\ verdict = NoVerdict
  /\ docker = "unset"
  /\ clock = 0
  /\ startedAt = [p \in Procs |-> {}]

NextStopTwice ==
  \/ ChildStep
  \/ KernelStep
  \/ StopPoll
  \/ StopWaitReturn
  \/ StopGraceTimeout
  \/ StopReturn

SpecStopTwice == InitStopTwice /\ [][NextStopTwice]_vars

\* The reporting functions on their own: find_latest_file on any listing and
\* pattern, and the verdicts of display_results on any summary record.
InitReport ==
  /\ mode = "report"
  /\ pc = "report"
  /\ step = 1
  /\ os = [p \in Procs |-> "none"]
  /\ code = [p \in Procs |-> {}]
  /\ rc = [p \in Procs |-> {}]
  /\ sigterm = {}
  /\ termCalls = [p \in Procs |-> 0]
  /\ killCalls = [p \in Procs |-> 0]
  /\ graceExpired = {}
  /\ processes = {}
  /\ success = [p \in Procs |-> "unset"]
  /\ result = "unset"
  /\ reported = "unset"
  /\ outdir = AbsentDir
  /\ exitStatus = {}
  /\ stopCalls = 0
  /\ interrupts = 0
  /\ docker = "unset"
  /\ clock = 0
  /\ startedAt = [p \in Procs |-> {}]
  /\ \E d \in Listings, pat \in Patterns :
       found = [state |-> "none", dir |-> d, pattern |-> pat, ret |-> {}]
  /\ \E a, l \in Percentages :
       verdict = [state |-> "none", windows_within_threshold |-> a,
                  latency_within_target |-> l, accuracy_passed |-> FALSE,
                  latency_passed |-> FALSE]

NextReport ==
  \/ FindLatestFile
  \/ AssessTargets

SpecReport == InitReport /\ [][NextReport]_vars

\* The demo without interrupts.  The script keeps running: its sleeps end,
\* its waits return or time out, the compose commands come back; and the
\* batch and comparison children end.
InitDemo ==
  /\ mode = "demo"
  /\ pc = EntryPc(mode)
  /\ InitCommon

DemoStep ==
  \/ DemoCheckDocker
  \/ DemoLaunch
  \/ DemoSleepDone
  \/ DemoWaitReturn
  \/ DemoGraceTimeout
  \/ DemoCommunicate
  \/ DemoDisplayResults

NextDemo ==
  \/ ChildStep
  \/ KernelStep
  \/ DemoStep

SpecDemoFair ==
  /\ InitDemo /\ [][NextDemo]_vars
  /\ WF_vars(DemoStep)
  /\ WF_vars(ChildExit("Batch"))
  /\ WF_vars(ChildExit("Comparison"))

\* the state of the sequencer: the step it is in, DONE once run_demo has
\* returned True, ABORTED once the script has ended with exit status 1
StepStates == <<"PRODUCING", "STREAMING", "BATCHING", "COMPARING">>
DemoState ==
  CASE pc = "precheck" -> "PRECHECK"
    [] pc \in {"launch", "sleep", "grace", "comm"} -> StepStates[step]
    [] pc = "report" -> "REPORTING"
    [] pc = "exited" /\ result = "true" -> "DONE"
    [] pc = "exited" /\ result = "interrupted" -> "INTERRUPTED"
    [] OTHER -> "ABORTED"

\* ---------------------------------------------------------------- claims

\* C1 (as claimed): when a run of the demo sequencer or of start-all that
\* started a child has ended, stop_all was executed exactly once and every
\* child that was started has exited or was force-killed.
C1_TeardownOnceNoLeak ==
  (mode \in {"demo", "start"} /\ pc = "exited" /\ \E p \in Procs : Launched(p))
    => /\ stopCalls = 1
       /\ \A p \in Procs : Launched(p) => Terminated(p)

\* C2 (as claimed): when a demo run that was interrupted has exited, no
\* child started by run_process is still alive.
C2_DemoInterruptStopsChildren ==
  (mode = "demo" /\ pc = "exited" /\ result = "interrupted")
    => \A p \in Procs : Launched(p) => Terminated(p)

\* C3 (as claimed): when start-all has exited, wherever its interrupts were
\* delivered, none of the services it launched is still alive.
C3_StartAllInterruptStopsChildren ==
  (mode = "start" /\ pc = "exited")
    => \A p \in Procs : Launched(p) => Terminated(p)

\* C4: process.kill() is called on a child exactly when the grace wait that
\* followed its terminate request timed out.  A child whose wait returned
\* (its returncode is set) and a child that had ended before the terminate
\* request (no SIGTERM was sent) are never killed; no child is killed twice.
C4_KillIffGraceExpired ==
  \A p \in Procs :
    /\ killCalls[p] > 0 <=> p \in graceExpired
    /\ killCalls[p] > 0 => /\ killCalls[p] = 1
                           /\ termCalls[p] > 0
                           /\ p \in sigterm
                           /\ rc[p] = {}
    /\ (termCalls[p] > 0 /\ p \notin sigterm) => rc[p] # {}

\* C4 witness: one child was force-killed after its grace period and another
\* one, sent SIGTERM, ended within its grace period and was not
C4_Witness ==
  \E p, q \in Procs :
    /\ killCalls[p] = 1 /\ p \in graceExpired
    /\ q \in sigterm /\ rc[q] # {} /\ killCalls[q] = 0

\* C5: in stop_processes called twice in a row, no step of either call calls
\* terminate() or kill() on a child that has already ended.
C5_StopTwiceNoSignalToEnded ==
  [][\A p \in Procs :
       os[p] = "exited" => /\ termCalls'[p] = termCalls[p]
                           /\ killCalls'[p] = killCalls[p]]_vars

\* C5 witness: the second call is through, over a map holding a child the
\* first call force-killed without waiting for it
C5_Witness ==
  /\ mode = "stop_twice" /\ pc = "exited" /\ stopCalls = 2
  /\ \E p \in processes : killCalls[p] = 1 /\ termCalls[p] = 1 /\ rc[p] = {RC_SIGKILL}

\* C6 (as claimed): in the demo, the batch step is not started before
\* terminate() was called on the streaming child, and the comparison step is
\* not started before the batch child has exited with code 0.
C6_Original ==
  mode = "demo" =>
    /\ os["Batch"] # "none" => termCalls["Streaming"] > 0
    /\ os["Comparison"] # "none" =>
         os["Batch"] = "exited" /\ code["Batch"] = {0} /\ rc["Batch"] = {0}

\* C6 (amended): in the demo, the batch step is not started before the
\* streaming step is over, that is before terminate() was called on the
\* streaming child or the streaming launch had failed; and the comparison
\* step is not started before the batch child has exited with code 0.
C6_BatchAfterStreamingEnded ==
  mode = "demo" =>
    /\ os["Batch"] # "none" =>
         termCalls["Streaming"] > 0 \/ os["Streaming"] = "nolaunch"
    /\ os["Comparison"] # "none" =>
         os["Batch"] = "exited" /\ code["Batch"] = {0} /\ rc["Batch"] = {0}

\* C6 witness: the comparison child runs, after a streaming child that was
\* sent SIGTERM and a batch child that exited with 0
C6_Witness ==
  /\ mode = "demo" /\ os["Comparison"] = "running"
  /\ "Streaming" \in sigterm /\ rc["Batch"] = {0}

StepFailed(p) == os[p] = "nolaunch" \/ (os[p] = "exited" /\ code[p] # {0})
StepSeenFailed(p) == os[p] = "nolaunch" \/ (rc[p] # {} /\ rc[p] # {0})

\* C7: in the demo, once the batch child has exited non-zero or could not be
\* launched, the comparison step and the reporting step are never run and
\* the run never returns True; once run_process has returned this failure
\* the run is over with run_demo = False and exit status 1.  Likewise the
\* reporting step after a failed comparison step.
C7_FatalPropagation ==
  mode = "demo" =>
    /\ StepFailed("Batch") =>
         os["Comparison"] = "none" /\ reported = "unset" /\ result # "true"
    /\ StepFailed("Comparison") => reported = "unset" /\ result # "true"
    /\ \A p \in FatalSteps :
         /\ StepSeenFailed(p) <=> success[p] = "false"
         /\ success[p] = "false" =>
              pc = "exited" /\ result = "false" /\ exitStatus = {1}

\* C7 witness: the demo is over after a batch child that exited with 1
C7_Witness ==
  /\ mode = "demo" /\ pc = "exited"
  /\ rc["Batch"] = {1} /\ success["Batch"] = "false"
  /\ success["Streaming"] # "unset"

\* C8 (as claimed): the CLI command `batch` does not end before its child
\* has exited, and its exit status is the child's exit code.
C8_BatchExitStatus ==
  (mode = "batch" /\ pc = "exited" /\ Launched("Batch"))
    => os["Batch"] = "exited" /\ exitStatus = code["Batch"]

\* C9 (as claimed): when a single-service CLI command has exited, the child
\* it started has exited or was force-killed.
C9_SingleCommandNoLeak ==
  (mode \in DOMAIN CommandProc /\ pc = "exited")
    => \A p \in Procs : Launched(p) => Terminated(p)

\* no file of the listing has a name containing summary_ (or no directory)
NoSummary(dir) == ~dir.exists \/ Matching(dir.files, "summary_") = {}

\* C10 (as claimed): in an uninterrupted demo whose batch and comparison
\* steps succeeded, reporting is attempted, and when no summary artifact can
\* be found (the directory is empty, holds no summary_ file or does not
\* exist) it returns False and the run still ends with run_demo = True and
\* exit status 0.
C10_MissingSummaryNotFatal ==
  (mode = "demo" /\ pc = "exited" /\ interrupts = 0 /\ success["Comparison"] = "true")
    => /\ reported # "unset"
       /\ NoSummary(outdir) =>
            reported = "false" /\ result = "true" /\ exitStatus = {0}

\* C11: a call of find_latest_file on an existing directory returns None
\* exactly when no file name contains the pattern; otherwise it returns a
\* file of the directory whose name contains the pattern and which no
\* matching file is strictly newer than.
C11_LatestMatchingFile ==
  found.state = "returned" =>
    /\ found.ret = {} <=>
         ~\E f \in found.dir.files : NameContains(f.name, found.pattern)
    /\ \A r \in found.ret :
         /\ r \in found.dir.files
         /\ NameContains(r.name, found.pattern)
         /\ \A g \in found.dir.files :
              NameContains(g.name, found.pattern) => g.mtime <= r.mtime

\* C11 witness: summary_a (older) and summary_b (newer): summary_b is returned
C11_Witness ==
  /\ found.state = "returned" /\ found.pattern = "summary_"
  /\ found.dir.files = {[name |-> <<"summary_", "a">>, mtime |-> 1],
                         [name |-> <<"summary_", "b">>, mtime |-> 2]}
  /\ found.ret = {[name |-> <<"summary_", "b">>, mtime |-> 2]}

\* C12: the accuracy verdict is met exactly when windows_within_threshold is
\* at least 95, the latency verdict exactly when latency_within_target is
\* at least 95, each whatever the other value is.
C12_TargetVerdicts ==
  verdict.state = "done" =>
    /\ verdict.accuracy_passed <=> verdict.windows_within_threshold >= 95
    /\ verdict.latency_passed <=> verdict.latency_within_target >= 95

\* C12 witness: 96 and 94 give accuracy met, latency not met
C12_Witness ==
  /\ verdict.state = "done"
  /\ verdict.windows_within_threshold = 96 /\ verdict.latency_within_target = 94
  /\ verdict.accuracy_passed /\ ~verdict.latency_passed

BoundedSteps == { DemoSteps[i] : i \in { j \in 1..Len(DemoSteps) : Bounded(j) } }
\* the bounded step of child p has returned after a terminate request the child
\* answered within the grace period / after the forced kill
GracePath(p) == p \in sigterm /\ p \notin graceExpired /\ success[p] # "unset"
ForcePath(p) == p \in graceExpired /\ success[p] # "unset"

\* C13 (as claimed): a bounded step that has returned leaves its child
\* terminated, and a step that went the grace path returns the same result
\* as a step that went the force path.
C13_BoundedResultSamePath ==
  mode = "demo" =>
    /\ \A p \in BoundedSteps :
         (Launched(p) /\ success[p] # "unset") => Terminated(p)
    /\ \A p, q \in BoundedSteps :
         (GracePath(p) /\ ForcePath(q)) => success[p] = success[q]

C15_NonFatalStepsIgnored ==
  mode = "demo" =>
    /\ (success["Streaming"] # "unset" /\ result # "interrupted") =>
         os["Batch"] # "none" \/ (pc = "launch" /\ step = 3)
    /\ result = "false" =>
         \/ ~DockerOk(docker)
         \/ success["Batch"] = "false"
         \/ success["Comparison"] = "false"
    /\ result = "true" =>
         DockerOk(docker) /\ success["Batch"] = "true" /\ success["Comparison"] = "true"

\* C15 witness: the run returned True although the producer could not be
\* launched and the streaming child had to be force-killed
C15_Witness ==
  /\ mode = "demo" /\ result = "true"
  /\ os["Producer"] = "nolaunch" /\ "Streaming" \in graceExpired
  /\ success["Producer"] = "false" /\ success["Streaming"] = "false"

\* C16: after a failed precheck (the compose query or the compose start-up
\* failed) no child is ever started, reporting is not attempted and the run
\* is over with run_demo = False and exit status 1.
C16_PrecheckAborts ==
  (mode = "demo" /\ docker \in {"query_failed", "up_failed"}) =>
    /\ \A p \in Procs : os[p] = "none"
    /\ reported = "unset"
    /\ pc = "exited" /\ result = "false" /\ exitStatus = {1}

\* C16 witness: the compose start-up command failed
C16_Witness == mode = "demo" /\ docker = "up_failed" /\ pc = "exited"

ServiceSet == { Services[i] : i \in 1..Len(Services) }

\* C17: in start-all the process map never holds a service whose launch
\* failed; a launch failure never ends the run (it ends after an interrupt
\* only); once "All services started" is reached every service was
\* attempted and the map holds exactly the launched ones.  A single-service
\* command whose launch failed ends normally, with status 0.
C17_LaunchFailureAbsentHandle ==
  /\ mode = "start" =>
       /\ processes \subseteq { p \in ServiceSet : Launched(p) }
       /\ pc = "exited" => interrupts > 0
       /\ pc = "idle" =>
            /\ \A p \in ServiceSet : os[p] # "none"
            /\ processes = { p \in ServiceSet : Launched(p) }
  /\ (mode \in DOMAIN CommandProc /\ os[CommandProc[mode]] = "nolaunch") =>
       pc = "exited" /\ exitStatus = {0}

\* C17 witness: all services started, the streaming launch having failed
C17_Witness ==
  /\ mode = "start" /\ pc = "idle"
  /\ os["Streaming"] = "nolaunch"
  /\ processes = {"Producer", "Scheduler"}

\* C18: in start-all the streaming start attempt comes at least 5 seconds
\* of delay after the producer's, the scheduler's at least 10 seconds after
\* the streaming one, and "All services started" only after all three.
C18_StaggeredStart ==
  mode = "start" =>
    /\ \A t \in startedAt["Streaming"] :
         startedAt["Producer"] # {} /\ \A u \in startedAt["Producer"] : t >= u + 5
    /\ \A t \in startedAt["Scheduler"] :
         startedAt["Streaming"] # {} /\ \A u \in startedAt["Streaming"] : t >= u + 10
    /\ pc = "idle" => \A p \in ServiceSet : startedAt[p] # {}

\* C18 witness: the idle loop is reached with the starts at 0, 5 and 15 s
C18_Witness ==
  /\ mode = "start" /\ pc = "idle"
  /\ startedAt["Producer"] = {0} /\ startedAt["Streaming"] = {5}
  /\ startedAt["Scheduler"] = {15}

StateOrder ==
  <<"PRECHECK", "PRODUCING", "STREAMING", "BATCHING", "COMPARING", "REPORTING", "DONE">>
\* a step from state a to state b the claimed state machine allows
AllowedMove(a, b) ==
  \/ a = b
  \/ \E i \in 1..(Len(StateOrder) - 1) : a = StateOrder[i] /\ b = StateOrder[i + 1]
  \/ b = "ABORTED" /\ a \in {"PRECHECK", "BATCHING", "COMPARING"}

\* C19 (as claimed): the uninterrupted demo moves through its states in the
\* order PRECHECK .. DONE only, to ABORTED from PRECHECK, BATCHING or
\* COMPARING only, and eventually reaches DONE or ABORTED.
C19_StateOrderAndTermination ==
  /\ [][AllowedMove(DemoState, DemoState')]_vars
  /\ <>(DemoState \in {"DONE", "ABORTED"})

\* the parts of C19 taken apart
C19_OrderExceptReporting ==
  [][AllowedMove(DemoState, DemoState')
       \/ (DemoState = "REPORTING" /\ DemoState' = "ABORTED" /\ reported' = "raised")]_vars
C19_Termination == <>(DemoState \in {"DONE", "ABORTED"})
=============================================================================
